---- MODULE Spec2Model ----
(***************************************************************************)
(* Model of the incremental Merkle tree of src/merkle.js (class            *)
(* MerkleTree): constructor, insert, leafExists, update, getPathUpdate.    *)
(*                                                                         *)
(* Digests.  The hash (mimc7.multiHash, an external collaborator) is       *)
(* modelled as the ideal collision-resistant function: hashLeftRight(l, r) *)
(* is the pair <<l, r>>, so two digests are equal exactly when they were   *)
(* built from the same inputs.  A leaf value v is the one-element tuple    *)
(* <<v>>, and the JavaScript value `undefined` (an absent filledPaths      *)
(* entry) is the empty tuple.  `===` on digests is equality of values      *)
(* (snarkjs' bigInt is the native BigInt).                                 *)
(***************************************************************************)
EXTENDS Integers, Sequences, FiniteSets, TLC

\* ---- bounds -------------------------------------------------------------
MaxDepth == 2        \* trees of depth 1..MaxDepth are constructed
MaxValue == 1        \* leaf values are 0..MaxValue (0 is also zeroValue)
MaxOps == 3          \* successful inserts and updates per behaviour
MaxOpsLong == 5      \* the same, in the behaviours of inserts and updates only

VARIABLES
  depth,             \* this.depth
  leaves,            \* this.leaves, a sequence indexed from 1 (leaf k is leaves[k+1])
  zeros,             \* this.zeros, level -> digest
  filledSubtrees,    \* this.filledSubtrees, level -> digest
  filledPaths,       \* this.filledPaths, level -> (index -> digest or Undefined)
  root,              \* this.root
  nextIndex,         \* this.nextIndex
  call,              \* the last call made on the tree and its outcome
  stored,            \* history: index -> values ever stored at that index
  replaced,          \* history: index -> value the last update at that index replaced (or None)
  opsLeft            \* number of successful inserts and updates still allowed

tree == <<depth, leaves, zeros, filledSubtrees, filledPaths, root, nextIndex>>
vars == <<depth, leaves, zeros, filledSubtrees, filledPaths, root, nextIndex,
          call, stored, replaced, opsLeft>>

\* ---- digests ------------------------------------------------------------
Undefined == <<>>
LeafValue(v) == <<v>>
LeafValues == {LeafValue(v) : v \in 0..MaxValue}
zeroValue == LeafValue(0)
None == <<>>

\* hashLeftRight (left, right): this.hash([left, right])
hashLeftRight(left, right) == <<left, right>>

RECURSIVE Pow2(_)
Pow2(n) == IF n = 0 THEN 1 ELSE 2 * Pow2(n - 1)

\* this.leafNumber = Math.pow(2, depth)
leafNumber == Pow2(depth)

\* ---- constructor ----------------------------------------------------------
\* zeros[0] = zeroValue; zeros[i] = hashLeftRight(zeros[i-1], zeros[i-1])
\* zeros that copy the level below instead of hashing it
ZerosAtUnhashed(i) == zeroValue

RECURSIVE ZerosAt(_)
ZerosAt(i) == IF i = 0 THEN zeroValue
              ELSE hashLeftRight(ZerosAt(i - 1), ZerosAt(i - 1))

\* the second constructor loop: levels 1..depth-1 are seeded, level 0 is {}
SeedPaths(d, fs) ==
  [i \in 0..(d - 1) |->
     [j \in 0..(Pow2(d - i) - 1) |->
        IF i = 0 THEN Undefined
        ELSE IF i = 1 THEN hashLeftRight(zeroValue, zeroValue)
        ELSE hashLeftRight(fs[i - 1], fs[i - 1])]]

Init ==
  /\ depth \in 1..MaxDepth
  /\ leaves = <<>>
  /\ zeros = [i \in 0..(depth - 1) |-> ZerosAt(i)]
  /\ filledSubtrees = [i \in 0..(depth - 1) |-> ZerosAt(i)]
  /\ filledPaths = SeedPaths(depth, [i \in 0..(depth - 1) |-> ZerosAt(i)])
  /\ root = hashLeftRight(ZerosAt(depth - 1), ZerosAt(depth - 1))
  /\ nextIndex = 0
  /\ call = [op |-> "new", leafIndex |-> 0, leaf |-> zeroValue, path |-> <<>>,
             err |-> "none", ret |-> None]
  /\ stored = [k \in 0..(Pow2(depth) - 1) |-> {}]
  /\ replaced = [k \in 0..(Pow2(depth) - 1) |-> None]
  /\ opsLeft = MaxOps

\* ---- insert -----------------------------------------------------------------
\* insert without line 86: the left child is not recorded in filledSubtrees
RECURSIVE InsertLoopNoFill(_, _, _, _, _)
InsertLoopNoFill(i, curIdx, cur, fs, fp) ==
  IF i = depth THEN [hash |-> cur, fs |-> fs, fp |-> fp]
  ELSE IF curIdx % 2 = 0
       THEN InsertLoopNoFill(i + 1, curIdx \div 2, hashLeftRight(cur, zeros[i]),
                             fs,
                             [fp EXCEPT ![i][curIdx] = cur, ![i][curIdx + 1] = zeros[i]])
       ELSE InsertLoopNoFill(i + 1, curIdx \div 2, hashLeftRight(fs[i], cur),
                             fs,
                             [fp EXCEPT ![i][curIdx - 1] = fs[i], ![i][curIdx] = cur])

\* an insert without line 89: the right sibling is not recorded in filledPaths
RECURSIVE InsertLoopNoSibling(_, _, _, _, _)
InsertLoopNoSibling(i, curIdx, cur, fs, fp) ==
  IF i = depth THEN [hash |-> cur, fs |-> fs, fp |-> fp]
  ELSE IF curIdx % 2 = 0
       THEN InsertLoopNoSibling(i + 1, curIdx \div 2, hashLeftRight(cur, zeros[i]),
                                [fs EXCEPT ![i] = cur],
                                [fp EXCEPT ![i][curIdx] = cur])
       ELSE InsertLoopNoSibling(i + 1, curIdx \div 2, hashLeftRight(fs[i], cur),
                                fs,
                                [fp EXCEPT ![i][curIdx - 1] = fs[i], ![i][curIdx] = cur])

\* an insert whose right-child branch records the left sibling at curIdx + 1
RECURSIVE InsertLoopWrongSide(_, _, _, _, _)
InsertLoopWrongSide(i, curIdx, cur, fs, fp) ==
  IF i = depth THEN [hash |-> cur, fs |-> fs, fp |-> fp]
  ELSE IF curIdx % 2 = 0
       THEN InsertLoopWrongSide(i + 1, curIdx \div 2, hashLeftRight(cur, zeros[i]),
                                [fs EXCEPT ![i] = cur],
                                [fp EXCEPT ![i][curIdx] = cur, ![i][curIdx + 1] = zeros[i]])
       ELSE InsertLoopWrongSide(i + 1, curIdx \div 2, hashLeftRight(fs[i], cur),
                                fs,
                                [fp EXCEPT ![i][curIdx + 1] = fs[i], ![i][curIdx] = cur])

\* an insert whose left-child branch takes the current digest as right sibling
RECURSIVE InsertLoopDupLeft(_, _, _, _, _)
InsertLoopDupLeft(i, curIdx, cur, fs, fp) ==
  IF i = depth THEN [hash |-> cur, fs |-> fs, fp |-> fp]
  ELSE IF curIdx % 2 = 0
       THEN InsertLoopDupLeft(i + 1, curIdx \div 2, hashLeftRight(cur, cur),
                              [fs EXCEPT ![i] = cur],
                              [fp EXCEPT ![i][curIdx] = cur, ![i][curIdx + 1] = cur])
       ELSE InsertLoopDupLeft(i + 1, curIdx \div 2, hashLeftRight(fs[i], cur),
                              fs,
                              [fp EXCEPT ![i][curIdx - 1] = fs[i], ![i][curIdx] = cur])

\* the loop of insert from level i on; cur is currentLevelHash
RECURSIVE InsertLoop(_, _, _, _, _)
InsertLoop(i, curIdx, cur, fs, fp) ==
  IF i = depth THEN [hash |-> cur, fs |-> fs, fp |-> fp]
  ELSE IF curIdx % 2 = 0
       THEN InsertLoop(i + 1, curIdx \div 2, hashLeftRight(cur, zeros[i]),
                       [fs EXCEPT ![i] = cur],
                       [fp EXCEPT ![i][curIdx] = cur, ![i][curIdx + 1] = zeros[i]])
       ELSE InsertLoop(i + 1, curIdx \div 2, hashLeftRight(fs[i], cur),
                       fs,
                       [fp EXCEPT ![i][curIdx - 1] = fs[i], ![i][curIdx] = cur])

\* a capacity guard that is off by one
InsertFullEarly == nextIndex + 2 > leafNumber

\* the capacity guard of insert
InsertFull == nextIndex + 1 > leafNumber

\* an insert that counts the leaf before it tests the capacity
insertCountFirst(leaf) ==
  IF InsertFull
  THEN /\ call' = [op |-> "insert", leafIndex |-> nextIndex, leaf |-> leaf,
                   path |-> <<>>, err |-> "CapacityExceeded", ret |-> None]
       /\ nextIndex' = nextIndex + 1
       /\ UNCHANGED <<depth, leaves, zeros, filledSubtrees, filledPaths, root,
                      stored, replaced, opsLeft>>
  ELSE LET r == InsertLoop(0, nextIndex, leaf, filledSubtrees, filledPaths) IN
       /\ opsLeft > 0
       /\ nextIndex' = nextIndex + 1
       /\ filledSubtrees' = r.fs
       /\ filledPaths' = r.fp
       /\ root' = r.hash
       /\ leaves' = Append(leaves, leaf)
       /\ call' = [op |-> "insert", leafIndex |-> nextIndex, leaf |-> leaf,
                   path |-> <<>>, err |-> "none", ret |-> None]
       /\ stored' = [stored EXCEPT ![nextIndex] = @ \cup {leaf}]
       /\ opsLeft' = opsLeft - 1
       /\ UNCHANGED <<depth, zeros, replaced>>

insert(leaf) ==
  IF InsertFull
  THEN /\ call' = [op |-> "insert", leafIndex |-> nextIndex, leaf |-> leaf,
                   path |-> <<>>, err |-> "CapacityExceeded", ret |-> None]
       /\ UNCHANGED <<tree, stored, replaced, opsLeft>>
  ELSE LET r == InsertLoop(0, nextIndex, leaf, filledSubtrees, filledPaths) IN
       /\ opsLeft > 0
       /\ nextIndex' = nextIndex + 1
       /\ filledSubtrees' = r.fs
       /\ filledPaths' = r.fp
       /\ root' = r.hash
       /\ leaves' = Append(leaves, leaf)
       /\ call' = [op |-> "insert", leafIndex |-> nextIndex, leaf |-> leaf,
                   path |-> <<>>, err |-> "none", ret |-> None]
       /\ stored' = [stored EXCEPT ![nextIndex] = @ \cup {leaf}]
       /\ opsLeft' = opsLeft - 1
       /\ UNCHANGED <<depth, zeros, replaced>>

Insert == \E leaf \in LeafValues : insert(leaf)

\* ---- leafExists ---------------------------------------------------------------
\* the loop of leafExists (and the identical hashing of update) from level i on;
\* path is a sequence, path[i + 1] is the code's path[i]
RECURSIVE PathHash(_, _, _, _)
PathHash(i, curIdx, cur, path) ==
  IF i = depth THEN cur
  ELSE IF curIdx % 2 = 0
       THEN PathHash(i + 1, curIdx \div 2, hashLeftRight(cur, path[i + 1]), path)
       ELSE PathHash(i + 1, curIdx \div 2, hashLeftRight(path[i + 1], cur), path)

\* the guard shared by leafExists and (through it) update
NotInserted(leafIndex) == leafIndex >= nextIndex

\* a leafExists that hashes the stored leaf instead of its argument
leafExistsStoredLeaf(leafIndex, leaf, path) ==
  root = PathHash(0, leafIndex, leaves[leafIndex + 1], path)

\* what leafExists returns when it does not throw
leafExists(leafIndex, leaf, path) == root = PathHash(0, leafIndex, leaf, path)

\* ---- getPathUpdate --------------------------------------------------------------
\* a guard that lets the first free index through
NotConstructedStrict(leafIndex) == leafIndex > nextIndex

\* the guard of getPathUpdate
NotConstructed(leafIndex) == leafIndex >= nextIndex

\* index of the sibling of the ancestor of leafIndex at level i
SiblingIndex(leafIndex, i) ==
  LET curIdx == leafIndex \div Pow2(i) IN
  IF curIdx % 2 = 0 THEN curIdx + 1 ELSE curIdx - 1

\* [path, leafIndexes] as getPathUpdate returns them
getPathUpdate(leafIndex) ==
  [path |-> [n \in 1..depth |-> filledPaths[n - 1][SiblingIndex(leafIndex, n - 1)]],
   leafIndexes |-> [n \in 1..depth |-> <<n - 1, SiblingIndex(leafIndex, n - 1)>>]]

\* ---- update -----------------------------------------------------------------------
\* an update loop that leaves filledPaths alone
RECURSIVE UpdateLoopNoCache(_, _, _, _, _)
UpdateLoopNoCache(i, curIdx, cur, path, fp) ==
  IF i = depth THEN [hash |-> cur, fp |-> fp]
  ELSE IF curIdx % 2 = 0
       THEN UpdateLoopNoCache(i + 1, curIdx \div 2, hashLeftRight(cur, path[i + 1]),
                              path, fp)
       ELSE UpdateLoopNoCache(i + 1, curIdx \div 2, hashLeftRight(path[i + 1], cur),
                              path, fp)

\* an update loop whose right-child branch hashes (current, sibling)
RECURSIVE UpdateLoopSwapped(_, _, _, _, _)
UpdateLoopSwapped(i, curIdx, cur, path, fp) ==
  IF i = depth THEN [hash |-> cur, fp |-> fp]
  ELSE IF curIdx % 2 = 0
       THEN UpdateLoopSwapped(i + 1, curIdx \div 2, hashLeftRight(cur, path[i + 1]), path,
                       [fp EXCEPT ![i][curIdx] = cur, ![i][curIdx + 1] = path[i + 1]])
       ELSE UpdateLoopSwapped(i + 1, curIdx \div 2, hashLeftRight(cur, path[i + 1]), path,
                       [fp EXCEPT ![i][curIdx - 1] = path[i + 1], ![i][curIdx] = cur])

\* the loop of update from level i on: the digest and the filledPaths it leaves
RECURSIVE UpdateLoop(_, _, _, _, _)
UpdateLoop(i, curIdx, cur, path, fp) ==
  IF i = depth THEN [hash |-> cur, fp |-> fp]
  ELSE IF curIdx % 2 = 0
       THEN UpdateLoop(i + 1, curIdx \div 2, hashLeftRight(cur, path[i + 1]), path,
                       [fp EXCEPT ![i][curIdx] = cur, ![i][curIdx + 1] = path[i + 1]])
       ELSE UpdateLoop(i + 1, curIdx \div 2, hashLeftRight(path[i + 1], cur), path,
                       [fp EXCEPT ![i][curIdx - 1] = path[i + 1], ![i][curIdx] = cur])

\* an update that does not verify the path
UpdateErrorNoProof(leafIndex, path) ==
  IF NotInserted(leafIndex) THEN "LeafNotInserted" ELSE "none"

\* the outcome of the call of leafExists that opens update
UpdateError(leafIndex, path) ==
  IF NotInserted(leafIndex) THEN "LeafNotInserted"
  ELSE IF ~leafExists(leafIndex, leaves[leafIndex + 1], path) THEN "ProofMismatch"
  ELSE "none"

\* an update that writes the cache and the root before it verifies the path
updateEager(leafIndex, leaf, path) ==
  LET e == UpdateError(leafIndex, path) IN
  IF e = "LeafNotInserted"
  THEN /\ call' = [op |-> "update", leafIndex |-> leafIndex, leaf |-> leaf,
                   path |-> path, err |-> e, ret |-> None]
       /\ UNCHANGED <<tree, stored, replaced, opsLeft>>
  ELSE LET r == UpdateLoop(0, leafIndex, leaf, path, filledPaths) IN
       /\ e = "none" => opsLeft > 0
       /\ filledPaths' = r.fp
       /\ root' = r.hash
       /\ leaves' = IF e = "none" THEN [leaves EXCEPT ![leafIndex + 1] = leaf] ELSE leaves
       /\ call' = [op |-> "update", leafIndex |-> leafIndex, leaf |-> leaf,
                   path |-> path, err |-> e, ret |-> None]
       /\ stored' = IF e = "none" THEN [stored EXCEPT ![leafIndex] = @ \cup {leaf}]
                    ELSE stored
       /\ replaced' = IF e = "none"
                      THEN [replaced EXCEPT ![leafIndex] = leaves[leafIndex + 1]]
                      ELSE replaced
       /\ opsLeft' = IF e = "none" THEN opsLeft - 1 ELSE opsLeft
       /\ UNCHANGED <<depth, zeros, filledSubtrees, nextIndex>>

update(leafIndex, leaf, path) ==
  LET e == UpdateError(leafIndex, path) IN
  IF e # "none"
  THEN /\ call' = [op |-> "update", leafIndex |-> leafIndex, leaf |-> leaf,
                   path |-> path, err |-> e, ret |-> None]
       /\ UNCHANGED <<tree, stored, replaced, opsLeft>>
  ELSE LET r == UpdateLoop(0, leafIndex, leaf, path, filledPaths) IN
       /\ opsLeft > 0
       /\ filledPaths' = r.fp
       /\ root' = r.hash
       /\ leaves' = [leaves EXCEPT ![leafIndex + 1] = leaf]
       /\ call' = [op |-> "update", leafIndex |-> leafIndex, leaf |-> leaf,
                   path |-> path, err |-> "none", ret |-> None]
       /\ stored' = [stored EXCEPT ![leafIndex] = @ \cup {leaf}]
       /\ replaced' = [replaced EXCEPT ![leafIndex] = leaves[leafIndex + 1]]
       /\ opsLeft' = opsLeft - 1
       /\ UNCHANGED <<depth, zeros, filledSubtrees, nextIndex>>

\* ---- inputs ---------------------------------------------------------------------
\* the node at (level i, index j) of the tree that root is the digest of
RECURSIVE RootNode(_, _)
RootNode(i, j) ==
  IF i = depth THEN root ELSE RootNode(i + 1, j \div 2)[(j % 2) + 1]

\* Digests a caller can put at position i of a path: every node of the hashed
\* tree at level i, every cached digest of level i, and the zero and filled
\* subtree of level i.  Because hashLeftRight is injective, a path makes
\* leafExists true only if its i-th entry is a RootNode of level i, so no
\* path outside this set verifies.
Digests(i) ==
  ({RootNode(i, j) : j \in 0..(Pow2(depth - i) - 1)}
     \cup {filledPaths[i][j] : j \in 0..(Pow2(depth - i) - 1)}
     \cup {zeros[i], filledSubtrees[i]}) \ {Undefined}

\* the paths of levels i..depth-1 made of these digests
RECURSIVE PathsFrom(_)
PathsFrom(i) ==
  IF i = depth THEN {<<>>}
  ELSE {<<d>> \o rest : d \in Digests(i), rest \in PathsFrom(i + 1)}

Paths == PathsFrom(0)

\* the path that root authenticates for an inserted leaf
RootPath(leafIndex) ==
  [n \in 1..depth |-> RootNode(n - 1, SiblingIndex(leafIndex, n - 1))]

ZeroPath == [n \in 1..depth |-> zeros[n - 1]]

\* the path a caller reads with getPathUpdate (none for an index that is
\* not inserted: the path of an empty tree stands in)
ReadPath(leafIndex) ==
  IF leafIndex < nextIndex THEN getPathUpdate(leafIndex).path ELSE ZeroPath

\* paths handed to update: the path read from the cache, the path root
\* authenticates and the path of an empty tree
PathInputs(leafIndex) ==
  IF leafIndex < nextIndex
  THEN {ReadPath(leafIndex), RootPath(leafIndex), ZeroPath}
  ELSE {ZeroPath}

\* every inserted index and the first index that is not
LeafIndexes == 0..nextIndex

\* ---- actions ----------------------------------------------------------------------
Update == \E leafIndex \in LeafIndexes, leaf \in LeafValues :
            \E path \in PathInputs(leafIndex) : update(leafIndex, leaf, path)

\* a leafExists whose last line assigns the computed digest to root
LeafExistsAssign == \E leafIndex \in LeafIndexes, leaf \in LeafValues :
                   \E path \in {ReadPath(leafIndex)} :
  /\ call' = [op |-> "leafExists", leafIndex |-> leafIndex, leaf |-> leaf,
              path |-> path,
              err |-> IF NotInserted(leafIndex) THEN "LeafNotInserted" ELSE "none",
              ret |-> IF NotInserted(leafIndex) THEN None
                      ELSE <<leafExists(leafIndex, leaf, path)>>]
  /\ root' = IF NotInserted(leafIndex) THEN root
             ELSE PathHash(0, leafIndex, leaf, path)
  /\ UNCHANGED <<depth, leaves, zeros, filledSubtrees, filledPaths, nextIndex,
                 stored, replaced, opsLeft>>

LeafExists == \E leafIndex \in LeafIndexes, leaf \in LeafValues :
             \E path \in {ReadPath(leafIndex)} :
  /\ call' = [op |-> "leafExists", leafIndex |-> leafIndex, leaf |-> leaf,
              path |-> path,
              err |-> IF NotInserted(leafIndex) THEN "LeafNotInserted" ELSE "none",
              ret |-> IF NotInserted(leafIndex) THEN None
                      ELSE <<leafExists(leafIndex, leaf, path)>>]
  /\ UNCHANGED <<tree, stored, replaced, opsLeft>>

GetPathUpdate == \E leafIndex \in LeafIndexes :
  /\ call' = [op |-> "getPathUpdate", leafIndex |-> leafIndex, leaf |-> zeroValue,
              path |-> <<>>,
              err |-> IF NotConstructed(leafIndex) THEN "LeafNotInserted" ELSE "none",
              ret |-> IF NotConstructed(leafIndex) THEN None
                      ELSE getPathUpdate(leafIndex)]
  /\ UNCHANGED <<tree, stored, replaced, opsLeft>>

Next == Insert \/ Update \/ LeafExists \/ GetPathUpdate

Spec == Init /\ [][Next]_vars

\* the tree driven by insert (and the read operations) only
NextInsertOnly == Insert \/ LeafExists \/ GetPathUpdate

SpecInsertOnly == Init /\ [][NextInsertOnly]_vars

\* longer behaviours of the mutating operations only
NewTree ==
  /\ depth \in 1..MaxDepth
  /\ leaves = <<>>
  /\ zeros = [i \in 0..(depth - 1) |-> ZerosAt(i)]
  /\ filledSubtrees = [i \in 0..(depth - 1) |-> ZerosAt(i)]
  /\ filledPaths = SeedPaths(depth, [i \in 0..(depth - 1) |-> ZerosAt(i)])
  /\ root = hashLeftRight(ZerosAt(depth - 1), ZerosAt(depth - 1))
  /\ nextIndex = 0

InitLong ==
  /\ NewTree
  /\ call = [op |-> "new", leafIndex |-> 0, leaf |-> zeroValue, path |-> <<>>,
             err |-> "none", ret |-> None]
  /\ stored = [k \in 0..(Pow2(depth) - 1) |-> {}]
  /\ replaced = [k \in 0..(Pow2(depth) - 1) |-> None]
  /\ opsLeft = MaxOpsLong

NextLong == Insert \/ Update

SpecLong == InitLong /\ [][NextLong]_vars

\* ---- reference definitions of the claims ------------------------------------------
Inserted == 0..(nextIndex - 1)

\* the full re-hash of the current leaves: node (level i, index j) of the
\* depth-`depth` tree whose leaf k is leaves[k] for k < nextIndex, else zeroValue
RECURSIVE NaiveNode(_, _)
NaiveNode(i, j) ==
  IF i = 0 THEN (IF j < nextIndex THEN leaves[j + 1] ELSE zeroValue)
  ELSE hashLeftRight(NaiveNode(i - 1, 2 * j), NaiveNode(i - 1, 2 * j + 1))

NaiveRoot == NaiveNode(depth, 0)

\* the last call was op and it returned
Returned(op) == call.op = op /\ call.err = "none"

\* leaf values a caller may ask about: the values inserted and one more
ProbeValues == LeafValues \cup {LeafValue(MaxValue + 1)}

TreeState == <<root, leaves, nextIndex, filledPaths, filledSubtrees>>

\* ---- claims -----------------------------------------------------------------------
\* C1: in every state reached by successful inserts and updates, root is the
\* digest a full re-hash of the current leaves (zeroValue elsewhere) gives.
C1_RootIsNaiveRoot == root = NaiveRoot

\* C2: after inserts only, every inserted leaf k verifies against the path
\* that getPathUpdate(k) returns in that state.
C2_InsertRoundTrip ==
  \A k \in Inserted : leafExists(k, leaves[k + 1], getPathUpdate(k).path)

C2_Witness ==
  /\ Returned("leafExists")
  /\ nextIndex >= 2
  /\ call.leafIndex = 0
  /\ call.leaf = leaves[1]
  /\ call.path = getPathUpdate(0).path
  /\ call.ret = <<TRUE>>

\* C3: in every state reached by inserts and updates, an update of any
\* inserted leaf k with the path freshly read by getPathUpdate(k) is not
\* rejected with ProofMismatch.
C3_FreshPathUpdates ==
  \A k \in Inserted : UpdateError(k, getPathUpdate(k).path) = "none"

\* C4: an update of an inserted leaf is applied exactly when its path
\* authenticates the leaf stored before the call, and is otherwise rejected
\* with ProofMismatch.
C4_UpdateIffProof ==
  [][(call'.op = "update" /\ call'.leafIndex < nextIndex) =>
       LET k == call'.leafIndex
           ok == leafExists(k, leaves[k + 1], call'.path) IN
       /\ ok => /\ call'.err = "none"
                /\ leaves' = [leaves EXCEPT ![k + 1] = call'.leaf]
                /\ root' = PathHash(0, k, call'.leaf, call'.path)
       /\ ~ok => /\ call'.err = "ProofMismatch"
                 /\ leaves' = leaves
                 /\ root' = root]_vars

C4_Witness ==
  /\ call.op = "update"
  /\ call.err = "ProofMismatch"
  /\ call.leafIndex < nextIndex
  /\ ~leafExists(call.leafIndex, leaves[call.leafIndex + 1], call.path)

\* C5: right after a successful update(k, newLeaf, path), leaves[k] is
\* newLeaf and newLeaf verifies at k against the path getPathUpdate(k) returns.
C5_UpdatedLeafVerifies ==
  Returned("update") =>
    /\ leaves[call.leafIndex + 1] = call.leaf
    /\ leafExists(call.leafIndex, call.leaf, getPathUpdate(call.leafIndex).path)

C5_Witness ==
  /\ Returned("update")
  /\ call.leafIndex % 2 = 1
  /\ call.leaf # replaced[call.leafIndex]

\* C6: the value an update replaced at index k (and that differs from the
\* value now stored there) verifies at k against no path, also after later
\* inserts and updates at other indices.
C6_ReplacedNeverVerifies ==
  \A k \in Inserted :
    (replaced[k] # None /\ replaced[k] # leaves[k + 1]) =>
      \A p \in Paths : ~leafExists(k, replaced[k], p)

\* C7: insert fails with CapacityExceeded exactly when nextIndex = 2^depth,
\* and the failed insert changes nothing of the tree.
C7_CapacityExceeded ==
  [][call'.op = "insert" =>
       /\ (call'.err = "CapacityExceeded") <=> (nextIndex = leafNumber)
       /\ (call'.err = "CapacityExceeded") => UNCHANGED TreeState]_vars

C7_Witness ==
  /\ call.op = "insert"
  /\ call.err = "CapacityExceeded"
  /\ nextIndex = leafNumber

\* C8: an update that fails, with ProofMismatch or LeafNotInserted, leaves
\* root, leaves, nextIndex, filledPaths and filledSubtrees as they were.
C8_FailedUpdateAtomic ==
  [][(call'.op = "update" /\ call'.err # "none") => UNCHANGED TreeState]_vars

C8_Witness ==
  /\ call.op = "update"
  /\ call.err \in {"ProofMismatch", "LeafNotInserted"}
  /\ nextIndex >= 1
  /\ opsLeft <= MaxOps - 2

\* C9: leafExists, getPathUpdate and update fail with LeafNotInserted exactly
\* when leafIndex >= nextIndex; for update the error then takes precedence
\* over ProofMismatch, whatever the path.
C9_LeafNotInserted ==
  [][call'.op \in {"leafExists", "getPathUpdate", "update"} =>
       ((call'.err = "LeafNotInserted") <=> (call'.leafIndex >= nextIndex))]_vars

C9_Witness ==
  /\ call.op = "update"
  /\ call.err = "LeafNotInserted"
  /\ call.leafIndex >= nextIndex
  /\ nextIndex >= 1

\* C10: for an inserted index k, a value never stored at k and any path,
\* leafExists does not fail and returns false.
C10_NeverStoredIsFalse ==
  \A p \in Paths : \A k \in Inserted : \A v \in ProbeValues \ stored[k] :
    ~NotInserted(k) /\ ~leafExists(k, v, p)

C10_Witness ==
  /\ Returned("leafExists")
  /\ call.leaf \notin stored[call.leafIndex]
  /\ leafExists(call.leafIndex, leaves[call.leafIndex + 1], call.path)
  /\ call.ret = <<FALSE>>

\* C11: a call of getPathUpdate or leafExists, whether it returns or fails,
\* leaves root, filledPaths, filledSubtrees, leaves and nextIndex unchanged.
C11_ReadsChangeNothing ==
  [][call'.op \in {"leafExists", "getPathUpdate"} => UNCHANGED TreeState]_vars

C11_Witness ==
  /\ Returned("getPathUpdate")
  /\ call.leafIndex = 1
  /\ nextIndex >= 2

\* C12: between operations 0 <= nextIndex <= 2^depth and leaves has nextIndex
\* entries; nextIndex grows by exactly 1 on a successful insert and is left
\* alone by update, leafExists, getPathUpdate and every failed call.
C12_NextIndex ==
  /\ [](0 <= nextIndex /\ nextIndex <= leafNumber /\ Len(leaves) = nextIndex)
  /\ [][nextIndex' = IF call'.op = "insert" /\ call'.err = "none"
                     THEN nextIndex + 1 ELSE nextIndex]_vars

C12_Witness ==
  /\ Returned("insert")
  /\ nextIndex = leafNumber
  /\ Len(leaves) = leafNumber

\* C13: a tree with no insertions has nextIndex = 0, no leaves, zeros[0] =
\* zeroValue, zeros[i] = hashLeftRight(zeros[i-1], zeros[i-1]) and root =
\* hashLeftRight(zeros[depth-1], zeros[depth-1]), the root of the all-zero tree.
C13_FreshRoot ==
  nextIndex = 0 =>
    /\ leaves = <<>>
    /\ zeros[0] = zeroValue
    /\ \A i \in 1..(depth - 1) : zeros[i] = hashLeftRight(zeros[i - 1], zeros[i - 1])
    /\ root = hashLeftRight(zeros[depth - 1], zeros[depth - 1])
    /\ root = NaiveRoot

C13_Witness ==
  /\ call.op = "new"
  /\ nextIndex = 0
  /\ depth = MaxDepth

\* C14: whenever insert takes the right-child branch at level i, the
\* filledSubtrees[i] it uses as left sibling is the digest of the subtree at
\* (level i, index curIdx - 1) as the leaves stored before the call give it.
C14_LeftSiblingCurrent ==
  [][(call'.op = "insert" /\ call'.err = "none") =>
       \A i \in 0..(depth - 1) :
         LET curIdx == nextIndex \div Pow2(i) IN
         curIdx % 2 = 1 => filledSubtrees[i] = NaiveNode(i, curIdx - 1)]_vars

\* C15: whenever insert takes the left-child branch at level i, no inserted
\* leaf lies in the subtree at (level i, index curIdx + 1), the digest of that
\* subtree is zeros[i], and the zeros[i] written to filledPaths[i][curIdx + 1]
\* replaces nothing but an absent entry or zeros[i].
C15_RightSiblingEmpty ==
  [][(call'.op = "insert" /\ call'.err = "none") =>
       \A i \in 0..(depth - 1) :
         LET curIdx == nextIndex \div Pow2(i) IN
         curIdx % 2 = 0 =>
           /\ \A k \in 0..nextIndex : k \div Pow2(i) # curIdx + 1
           /\ NaiveNode(i, curIdx + 1) = zeros[i]
           /\ filledPaths[i][curIdx + 1] \in {Undefined, zeros[i]}
           /\ filledPaths'[i][curIdx + 1] = zeros[i]]_vars

C15_Witness ==
  /\ Returned("insert")
  /\ depth = 2
  /\ call.leafIndex = 2
  /\ filledPaths[0][3] = zeros[0]

\* C16: an insert never changes the value of a filledPaths entry that was
\* populated before the call (entries seeded by the constructor included).
C16_InsertAppendOnly ==
  [][(call'.op = "insert" /\ call'.err = "none") =>
       \A i \in 0..(depth - 1) : \A j \in 0..(Pow2(depth - i) - 1) :
         filledPaths[i][j] # Undefined => filledPaths'[i][j] = filledPaths[i][j]]_vars

\* C16 as amended: an insert at index n changes no filledPaths entry other
\* than those at (i, floor(n / 2^i)) and their siblings; populated entries at
\* those positions may be overwritten.
C16_InsertWritesOwnPath ==
  [][(call'.op = "insert" /\ call'.err = "none") =>
       \A i \in 0..(depth - 1) : \A j \in 0..(Pow2(depth - i) - 1) :
         j \notin {nextIndex \div Pow2(i), SiblingIndex(nextIndex, i)} =>
           filledPaths'[i][j] = filledPaths[i][j]]_vars

C16_Witness ==
  /\ Returned("insert")
  /\ depth = 2
  /\ call.leafIndex = 1
  /\ filledPaths[1][0] # zeros[1]
  /\ filledPaths[0][2] = Undefined

\* C17: a successful update(k, newLeaf, path) changes only root, leaves[k] and
\* the filledPaths entries at (i, floor(k / 2^i)); nextIndex, the other leaves,
\* filledSubtrees and every other filledPaths entry (the siblings of that path
\* included) keep their values.
C17_UpdateWritesOwnPath ==
  [][(call'.op = "update" /\ call'.err = "none") =>
       LET k == call'.leafIndex IN
       /\ nextIndex' = nextIndex
       /\ filledSubtrees' = filledSubtrees
       /\ \A j \in Inserted \ {k} : leaves'[j + 1] = leaves[j + 1]
       /\ \A i \in 0..(depth - 1) : \A j \in 0..(Pow2(depth - i) - 1) :
            j # k \div Pow2(i) => filledPaths'[i][j] = filledPaths[i][j]]_vars

\* C18: for every inserted leafIndex, getPathUpdate returns depth path
\* entries, none of them an absent filledPaths entry, and depth pairs (i, s_i)
\* with s_i the sibling index of floor(leafIndex / 2^i).
C18_PathPopulated ==
  \A k \in Inserted :
    LET r == getPathUpdate(k) IN
    /\ DOMAIN r.path = 1..depth
    /\ DOMAIN r.leafIndexes = 1..depth
    /\ \A n \in 1..depth :
         LET c == k \div Pow2(n - 1)
             s == c + 1 - 2 * (c % 2) IN
         /\ r.leafIndexes[n] = <<n - 1, s>>
         /\ s \in DOMAIN filledPaths[n - 1]
         /\ r.path[n] # Undefined

C18_Witness ==
  /\ Returned("getPathUpdate")
  /\ depth = 2
  /\ nextIndex = 1
  /\ call.leafIndex = 0
  /\ call.ret.path = <<zeros[0], zeros[1]>>

\* C19: if every inserted leaf verifies against its cached path before a
\* successful update, every inserted leaf verifies against its cached path
\* (read again) after it.
AllCachedPathsVerify ==
  \A j \in Inserted : leafExists(j, leaves[j + 1], getPathUpdate(j).path)

C19_UpdateKeepsPaths ==
  [][(call'.op = "update" /\ call'.err = "none" /\ AllCachedPathsVerify) =>
       AllCachedPathsVerify']_vars

C19_Witness ==
  /\ Returned("update")
  /\ nextIndex >= 2
  /\ call.leaf # replaced[call.leafIndex]
  /\ AllCachedPathsVerify
====
